---- MODULE Spec2Model ----
(***************************************************************************)
(* Model of jun_kim_trainings.py: three batch reports over a dataset of    *)
(* people and their training completions.                                  *)
(*                                                                         *)
(* Python values are represented as follows.                               *)
(*   str           a sequence of one-character strings when the program    *)
(*                 parses it (timestamp, expires), a TLA+ string when the  *)
(*                 program only compares and stores it (names)             *)
(*   dict (input)  a record; a key the JSON object lacks is a field the    *)
(*                 record lacks, so dict.get is a test on DOMAIN           *)
(*   dict (built)  a sequence of [k, v] records in insertion order         *)
(*   datetime      the proleptic Gregorian ordinal of the day: "%m/%d/%Y"  *)
(*                 has no time fields, so every parsed datetime is at      *)
(*                 midnight and datetimes compare as their ordinals        *)
(*   exception     a record [raised |-> <exception class>]                 *)
(***************************************************************************)
EXTENDS Integers, Sequences, FiniteSets, TLC

VARIABLES
    data,                   \* the loaded dataset (line 149)
    trainings,              \* argument of get_completed_trainings (line 155)
    fiscal_year,            \* argument of get_completed_trainings (line 156)
    reference_date,         \* the date string that line 160 parses
    training_count,         \* outcome of get_training_count
    training_results,       \* outcome of get_completed_trainings
    most_recent_trainings,  \* line 111, one value per person processed
    results                 \* outcome of get_expired_or_expiring_trainings

vars == <<data, trainings, fiscal_year, reference_date, training_count,
          training_results, most_recent_trainings, results>>

----------------------------------------------------------------------------
(* Bounds of the model.                                                    *)

\* people in a dataset
MaxPeople == 2
\* completions in a dataset, over all its people
MaxCompletions == 3

----------------------------------------------------------------------------
(* Strings and dates.                                                      *)

DigitChars == <<"0", "1", "2", "3", "4", "5", "6", "7", "8", "9">>

Digits == {DigitChars[i] : i \in 1..10}

IsDigit(c) == c \in Digits

DigitValues == [c \in Digits |-> (CHOOSE i \in 1..10 : DigitChars[i] = c) - 1]

DigitVal(c) == DigitValues[c]

\* int(found_dict['m']) and the like: the value of a run of digits
RECURSIVE IntOf(_)
IntOf(s) ==
    IF s = <<>> THEN 0
    ELSE 10 * IntOf(SubSeq(s, 1, Len(s) - 1)) + DigitVal(s[Len(s)])

\* calendar.isleap
IsLeap(y) == (y % 4 = 0) /\ ((y % 100 # 0) \/ (y % 400 = 0))

\* days in month m of year y
DaysInMonth(y, m) ==
    IF m = 2 THEN (IF IsLeap(y) THEN 29 ELSE 28)
    ELSE IF m \in {4, 6, 9, 11} THEN 30 ELSE 31

RECURSIVE DaysBeforeMonth(_, _)
DaysBeforeMonth(y, m) ==
    IF m = 1 THEN 0 ELSE DaysBeforeMonth(y, m - 1) + DaysInMonth(y, m - 1)

\* datetime(y, m, d).toordinal(): 01/01/0001 is day 1
ToOrdinal(y, m, d) ==
    365 * (y - 1) + ((y - 1) \div 4) - ((y - 1) \div 100) + ((y - 1) \div 400)
    + DaysBeforeMonth(y, m) + d

\* datetime(y, m, d) of lines 47 and 48
DateTime(y, m, d) == ToOrdinal(y, m, d)

\* %m : 1[0-2]|0[1-9]|[1-9]
MatchesMonth(f) ==
    \/ Len(f) = 2 /\ f[1] = "1" /\ f[2] \in {"0", "1", "2"}
    \/ Len(f) = 2 /\ f[1] = "0" /\ IsDigit(f[2]) /\ f[2] # "0"
    \/ Len(f) = 1 /\ IsDigit(f[1]) /\ f[1] # "0"

\* %d : 3[0-1]|[1-2]\d|0[1-9]|[1-9]| [1-9]
MatchesDay(f) ==
    \/ Len(f) = 2 /\ f[1] = "3" /\ f[2] \in {"0", "1"}
    \/ Len(f) = 2 /\ f[1] \in {"1", "2"} /\ IsDigit(f[2])
    \/ Len(f) = 2 /\ f[1] \in {"0", " "} /\ IsDigit(f[2]) /\ f[2] # "0"
    \/ Len(f) = 1 /\ IsDigit(f[1]) /\ f[1] # "0"

\* %Y : \d\d\d\d
MatchesYear(f) == Len(f) = 4 /\ \A i \in 1..4 : IsDigit(f[i])

\* the day field's digits (a leading space is not one)
DayDigits(f) == IF f[1] = " " THEN Tail(f) ELSE f

\* How a computation ends: with a value, or with an exception that nothing
\* in the program catches.
Returns(v) == [value |-> v]

ValueError == [raised |-> "ValueError"]

KeyError == [raised |-> "KeyError"]

Raised(x) == "raised" \in DOMAIN x

\* datetime.strptime(s, "%m/%d/%Y"): the day's ordinal, or ValueError.
\* The format's two literal "/" split the string in three fields, none of
\* which can hold a "/"; each field must match its directive wholly, and the
\* datetime constructor then rejects year 0 and a day past the month's end.
strptime(s) ==
    LET slashes == {i \in 1..Len(s) : s[i] = "/"}
    IN  IF Cardinality(slashes) # 2 THEN ValueError
        ELSE
          LET s1 == CHOOSE i \in slashes : \A j \in slashes : i <= j
              s2 == CHOOSE i \in slashes : \A j \in slashes : i >= j
              fm == SubSeq(s, 1, s1 - 1)
              fd == SubSeq(s, s1 + 1, s2 - 1)
              fy == SubSeq(s, s2 + 1, Len(s))
          IN  IF ~(MatchesMonth(fm) /\ MatchesDay(fd) /\ MatchesYear(fy))
              THEN ValueError
              ELSE
                LET m == IntOf(fm)
                    d == IntOf(DayDigits(fd))
                    y == IntOf(fy)
                IN  IF y < 1 \/ d > DaysInMonth(y, m) THEN ValueError
                    ELSE Returns(ToOrdinal(y, m, d))

----------------------------------------------------------------------------
(* Dictionaries the program builds, in insertion order.                    *)

DictKeys(d) == {d[i].k : i \in 1..Len(d)}

DictHas(d, key) == \E i \in 1..Len(d) : d[i].k = key

DictGet(d, key) == d[CHOOSE i \in 1..Len(d) : d[i].k = key].v

\* d[key] = val: a new key is appended, an old one keeps its place
DictSet(d, key, val) ==
    IF DictHas(d, key)
    THEN [i \in 1..Len(d) |-> IF d[i].k = key THEN [k |-> key, v |-> val] ELSE d[i]]
    ELSE Append(d, [k |-> key, v |-> val])

\* completion.get('name') is truthy: the key is there and its string is
\* not empty
HasName(completion) == "name" \in DOMAIN completion /\ completion.name # ""

\* x.get(key) is truthy, for the keys that hold date strings
HasText(x, key) == key \in DOMAIN x /\ x[key] # <<>>

\* person.get('completions', [])
CompletionsOf(person) ==
    IF "completions" \in DOMAIN person THEN person.completions ELSE <<>>

\* the (person, completion) pairs in the order the nested loops of lines
\* 22-24 and 51-52 visit them
RECURSIVE Visits(_, _)
Visits(d, p) ==
    IF p > Len(d) THEN <<>>
    ELSE [j \in 1..Len(CompletionsOf(d[p])) |->
              [person |-> d[p], completion |-> CompletionsOf(d[p])[j]]]
         \o Visits(d, p + 1)

----------------------------------------------------------------------------
(* get_training_count, lines 10-31.                                        *)

\* line 27 with "= 1" for "+= 1"
CountCompletion_NoIncrement(count, completion) ==
    IF HasName(completion) THEN DictSet(count, completion.name, 1) ELSE count

\* lines 25-27: one completion
CountCompletion(count, completion) ==
    IF HasName(completion)
    THEN DictSet(count, completion.name,
                 (IF DictHas(count, completion.name)
                  THEN DictGet(count, completion.name) ELSE 0) + 1)
    ELSE count

RECURSIVE CountLoop(_, _, _)
CountLoop(visits, i, count) ==
    IF i > Len(visits) THEN count
    ELSE CountLoop(visits, i + 1, CountCompletion(count, visits[i].completion))

\* lines 19-27: the dictionary that line 31 dumps
get_training_count(d) == Returns(CountLoop(Visits(d, 1), 1, <<>>))

----------------------------------------------------------------------------
(* get_completed_trainings, lines 34-63.                                   *)

\* line 45: {training: [] for training in trainings}
RECURSIVE EmptyResults(_, _)
EmptyResults(ts, i) ==
    IF i = 0 THEN <<>>
    ELSE DictSet(EmptyResults(ts, i - 1), ts[i], <<>>)

\* line 47
FiscalStart(fy) == DateTime(fy - 1, 7, 1)

\* line 48
FiscalEnd(fy) == DateTime(fy, 6, 30)

\* line 58 with "<" for the second "<="
InFiscalYear_OpenEnd(date, fy) == FiscalStart(fy) <= date /\ date < FiscalEnd(fy)

\* line 58
InFiscalYear(date, fy) == FiscalStart(fy) <= date /\ date <= FiscalEnd(fy)

\* line 56: training_name in training_results and timestamp
IsRequested(res, completion) ==
    /\ "name" \in DOMAIN completion
    /\ DictHas(res, completion.name)
    /\ HasText(completion, "timestamp")

\* lines 56-59 with training_results.setdefault(training_name, []) for the
\* test of membership
FilterCompletion_AnyTraining(res, person, completion, fy) ==
    IF ~(HasName(completion) /\ HasText(completion, "timestamp")) THEN Returns(res)
    ELSE LET date == strptime(completion.timestamp)
         IN  IF Raised(date) THEN date
             ELSE IF ~InFiscalYear(date.value, fy) THEN Returns(res)
             ELSE IF "name" \notin DOMAIN person THEN KeyError
             ELSE Returns(DictSet(res, completion.name,
                                  Append(IF DictHas(res, completion.name)
                                         THEN DictGet(res, completion.name)
                                         ELSE <<>>,
                                         person.name)))

\* line 59 appending only a name the list does not hold yet
FilterCompletion_Dedup(res, person, completion, fy) ==
    IF ~IsRequested(res, completion) THEN Returns(res)
    ELSE LET date == strptime(completion.timestamp)
         IN  IF Raised(date) THEN date
             ELSE IF ~InFiscalYear(date.value, fy) THEN Returns(res)
             ELSE IF "name" \notin DOMAIN person THEN KeyError
             ELSE IF \E i \in 1..Len(DictGet(res, completion.name)) :
                        DictGet(res, completion.name)[i] = person.name
                  THEN Returns(res)
             ELSE Returns(DictSet(res, completion.name,
                                  Append(DictGet(res, completion.name), person.name)))

\* lines 56-59 with a handler that skips a timestamp line 57 cannot parse
FilterCompletion_SkipsBadDate(res, person, completion, fy) ==
    IF ~IsRequested(res, completion) THEN Returns(res)
    ELSE LET date == strptime(completion.timestamp)
         IN  IF Raised(date) THEN Returns(res)
             ELSE IF ~InFiscalYear(date.value, fy) THEN Returns(res)
             ELSE IF "name" \notin DOMAIN person THEN KeyError
             ELSE Returns(DictSet(res, completion.name,
                                  Append(DictGet(res, completion.name), person.name)))

\* lines 53-59: one completion of one person
FilterCompletion(res, person, completion, fy) ==
    IF ~IsRequested(res, completion) THEN Returns(res)
    ELSE LET date == strptime(completion.timestamp)
         IN  IF Raised(date) THEN date
             ELSE IF ~InFiscalYear(date.value, fy) THEN Returns(res)
             ELSE IF "name" \notin DOMAIN person THEN KeyError
             ELSE Returns(DictSet(res, completion.name,
                                  Append(DictGet(res, completion.name), person.name)))

RECURSIVE FilterLoop(_, _, _, _)
FilterLoop(visits, i, res, fy) ==
    IF Raised(res) \/ i > Len(visits) THEN res
    ELSE FilterLoop(visits, i + 1,
                    FilterCompletion(res.value, visits[i].person,
                                     visits[i].completion, fy),
                    fy)

\* lines 45-59: the dictionary that line 63 dumps, or the exception raised
get_completed_trainings(d, ts, fy) ==
    FilterLoop(Visits(d, 1), 1, Returns(EmptyResults(ts, Len(ts))), fy)

----------------------------------------------------------------------------
(* get_most_recent_completions, lines 66-95.                               *)

\* line 88 with "<" for ">"
IsMoreRecent_Older(completion_date, recorded) == completion_date < recorded

\* line 88 with ">=" for ">"
IsMoreRecent_OrSame(completion_date, recorded) == completion_date >= recorded

\* line 88, second operand
IsMoreRecent(completion_date, recorded) == completion_date > recorded

\* lines 89-92; the record has no expires field when the 'expires' it
\* stands for is None
Details(completion_date, completion) ==
    IF "expires" \in DOMAIN completion
    THEN [timestamp |-> completion_date, expires |-> completion.expires]
    ELSE [timestamp |-> completion_date]

\* lines 89-92 keeping the expiry date recorded for the training when the
\* more recent completion has none
Resolve_KeepsExpiry(most_recent, completion) ==
    IF ~(HasName(completion) /\ HasText(completion, "timestamp"))
    THEN Returns(most_recent)
    ELSE LET completion_date == strptime(completion.timestamp)
         IN  IF Raised(completion_date) THEN completion_date
             ELSE IF ~DictHas(most_recent, completion.name)
                  THEN Returns(DictSet(most_recent, completion.name,
                                       Details(completion_date.value, completion)))
             ELSE IF IsMoreRecent(completion_date.value,
                                  DictGet(most_recent, completion.name).timestamp)
                  THEN Returns(DictSet(most_recent, completion.name,
                         IF "expires" \in DOMAIN completion
                         THEN Details(completion_date.value, completion)
                         ELSE [DictGet(most_recent, completion.name)
                                   EXCEPT !.timestamp = completion_date.value]))
                  ELSE Returns(most_recent)

\* lines 80-92: one completion
Resolve(most_recent, completion) ==
    IF ~(HasName(completion) /\ HasText(completion, "timestamp"))
    THEN Returns(most_recent)
    ELSE LET completion_date == strptime(completion.timestamp)
         IN  IF Raised(completion_date) THEN completion_date
             ELSE IF \/ ~DictHas(most_recent, completion.name)
                     \/ IsMoreRecent(completion_date.value,
                                     DictGet(most_recent, completion.name).timestamp)
                  THEN Returns(DictSet(most_recent, completion.name,
                                       Details(completion_date.value, completion)))
                  ELSE Returns(most_recent)

RECURSIVE ResolveLoop(_, _, _)
ResolveLoop(completions, i, most_recent) ==
    IF Raised(most_recent) \/ i > Len(completions) THEN most_recent
    ELSE ResolveLoop(completions, i + 1,
                     Resolve(most_recent.value, completions[i]))

\* lines 76-95: the dictionary returned, or the exception raised
get_most_recent_completions(completions) ==
    ResolveLoop(completions, 1, Returns(<<>>))

----------------------------------------------------------------------------
(* get_expired_or_expiring_trainings, lines 98-143.                        *)

\* timedelta(days=30) of line 124
SoonDays == 30

\* line 124 with "<" for "<="
Status_OpenWindow(ref, expiry_date) ==
    IF ref > expiry_date THEN "expired"
    ELSE IF expiry_date < ref + SoonDays THEN "expires soon"
    ELSE "none"

\* lines 119-125: "none" stands for status = None
Status(ref, expiry_date) ==
    IF ref > expiry_date THEN "expired"
    ELSE IF expiry_date <= ref + SoonDays THEN "expires soon"
    ELSE "none"

\* lines 116-132: one entry of most_recent_trainings
Flag(flagged, training_name, details, ref) ==
    IF ~HasText(details, "expires") THEN Returns(flagged)
    ELSE LET expiry_date == strptime(details.expires)
         IN  IF Raised(expiry_date) THEN expiry_date
             ELSE LET status == Status(ref, expiry_date.value)
                  IN  IF status = "none" THEN Returns(flagged)
                      ELSE Returns(Append(flagged, [training |-> training_name,
                                                    status |-> status]))

RECURSIVE FlagLoop(_, _, _, _)
FlagLoop(most_recent, i, flagged, ref) ==
    IF Raised(flagged) \/ i > Len(most_recent) THEN flagged
    ELSE FlagLoop(most_recent, i + 1,
                  Flag(flagged.value, most_recent[i].k, most_recent[i].v, ref),
                  ref)

\* lines 112-139 without the test of line 135
ReportPerson_Everyone(res, person, most_recent, ref) ==
    IF Raised(most_recent) THEN most_recent
    ELSE LET flagged == FlagLoop(most_recent.value, 1, Returns(<<>>), ref)
         IN  IF Raised(flagged) THEN flagged
             ELSE IF "name" \notin DOMAIN person THEN KeyError
             ELSE Returns(Append(res, [name |-> person.name,
                                       trainings |-> flagged.value]))

\* lines 112-139: one person, whose most recent completions line 111 has
\* found; res is the list built so far
ReportPerson(res, person, most_recent, ref) ==
    IF Raised(most_recent) THEN most_recent
    ELSE LET flagged == FlagLoop(most_recent.value, 1, Returns(<<>>), ref)
         IN  IF Raised(flagged) THEN flagged
             ELSE IF flagged.value = <<>> THEN Returns(res)
             ELSE IF "name" \notin DOMAIN person THEN KeyError
             ELSE Returns(Append(res, [name |-> person.name,
                                       trainings |-> flagged.value]))

\* lines 110-139: the loop over the people; log collects the values that
\* line 111 binds, person by person
RECURSIVE ReportLoop(_, _, _, _, _)
ReportLoop(d, p, res, log, ref) ==
    IF Raised(res) \/ p > Len(d) THEN [outcome |-> res, log |-> log]
    ELSE LET most_recent == get_most_recent_completions(CompletionsOf(d[p]))
         IN  ReportLoop(d, p + 1, ReportPerson(res.value, d[p], most_recent, ref),
                        Append(log, most_recent), ref)

\* lines 107-139: the list that line 143 dumps, or the exception raised
get_expired_or_expiring_trainings(d, ref) ==
    ReportLoop(d, 1, Returns(<<>>), <<>>, ref)

----------------------------------------------------------------------------
(* Inputs: date strings.                                                   *)

DigitChar(n) == DigitChars[n + 1]

\* n in two digits: 7 as "07"
Padded(n) == <<DigitChar(n \div 10), DigitChar(n % 10)>>

\* n without a leading zero: 7 as "7"
Unpadded(n) == IF n < 10 THEN <<DigitChar(n)>> ELSE Padded(n)

Year4(y) == Padded(y \div 100) \o Padded(y % 100)

\* "MM/DD/YYYY"
DateString(m, d, y) == Padded(m) \o <<"/">> \o Padded(d) \o <<"/">> \o Year4(y)

\* "M/D/YYYY"
ShortDateString(m, d, y) ==
    Unpadded(m) \o <<"/">> \o Unpadded(d) \o <<"/">> \o Year4(y)

----------------------------------------------------------------------------
(* Inputs: datasets.                                                       *)

\* a key the JSON object does not have
Missing == "<missing>"

MissingText == <<Missing>>

\* a completion with the keys that are given
Completion(name, timestamp, expires) ==
    LET n == IF name = Missing THEN <<>> ELSE <<"name">>
        t == IF timestamp = MissingText THEN <<>> ELSE <<"timestamp">>
        e == IF expires = MissingText THEN <<>> ELSE <<"expires">>
        keys == n \o t \o e
    IN  [key \in {keys[i] : i \in 1..Len(keys)} |->
            IF key = "name" THEN name
            ELSE IF key = "timestamp" THEN timestamp ELSE expires]

Person(name, completions) ==
    IF name = Missing THEN [completions |-> completions]
    ELSE [name |-> name, completions |-> completions]

RECURSIVE Sum(_, _)
Sum(lens, i) == IF i = 0 THEN 0 ELSE Sum(lens, i - 1) + lens[i]

\* how many completions each person of a dataset has
Shapes ==
    UNION {{lens \in [1..p -> 0..MaxCompletions] : Sum(lens, p) <= MaxCompletions}
           : p \in 0..MaxPeople}

\* the dataset of person names `names`, with lens[p] completions for person p
\* taken in order from `flat`
Dataset(names, lens, flat) ==
    [p \in 1..Len(lens) |->
        Person(names[p], SubSeq(flat, Sum(lens, p - 1) + 1, Sum(lens, p)))]

PersonNames == <<"Alice", "Bob", "Carol", "Dave">>

\* person p's name when names do not matter
NameByPlace(lens) == [p \in 1..Len(lens) |-> PersonNames[((p - 1) % 4) + 1]]

----------------------------------------------------------------------------
(* The calls of lines 152-161.                                             *)

NotCalled == [called |-> FALSE]

MainTrainings == <<"Electrical Safety for Labs", "X-Ray Safety",
                   "Laboratory Safety Training">>

MainFiscalYear == 2024

\* '10/1/2023'
MainReferenceDate == ShortDateString(10, 1, 2023)

TypeOK ==
    /\ training_count = NotCalled \/ "value" \in DOMAIN training_count
    /\ training_results = NotCalled \/ "value" \in DOMAIN training_results
          \/ Raised(training_results)
    /\ results = NotCalled \/ "value" \in DOMAIN results \/ Raised(results)

\* line 152
CallTrainingCount ==
    /\ training_count = NotCalled
    /\ training_count' = get_training_count(data)
    /\ UNCHANGED <<data, trainings, fiscal_year, reference_date,
                   training_results, most_recent_trainings, results>>

\* line 157
CallCompletedTrainings ==
    /\ training_results = NotCalled
    /\ training_results' = get_completed_trainings(data, trainings, fiscal_year)
    /\ UNCHANGED <<data, trainings, fiscal_year, reference_date,
                   training_count, most_recent_trainings, results>>

\* lines 160-161
CallExpiredOrExpiring ==
    /\ results = NotCalled
    /\ ~Raised(strptime(reference_date))
    /\ \E run \in {get_expired_or_expiring_trainings(
                         data, strptime(reference_date).value)} :
          /\ results' = run.outcome
          /\ most_recent_trainings' = run.log
    /\ UNCHANGED <<data, trainings, fiscal_year, reference_date,
                   training_count, training_results>>

NoOutcome ==
    /\ training_count = NotCalled
    /\ training_results = NotCalled
    /\ most_recent_trainings = <<>>
    /\ results = NotCalled

----------------------------------------------------------------------------
(* get_training_count on every dataset of completions of two trainings,    *)
(* with and without a name.                                                *)

CountNames == {"X-Ray Safety", "Laboratory Safety Training", "", Missing}

CountCompletions ==
    {Completion(n, DateString(1, 15, MainFiscalYear), MissingText) : n \in CountNames}

InitCount ==
    /\ \E lens \in Shapes :
         \E flat \in [1..Sum(lens, Len(lens)) -> CountCompletions] :
            data = Dataset(NameByPlace(lens), lens, flat)
    /\ trainings = MainTrainings
    /\ fiscal_year = MainFiscalYear
    /\ reference_date = MainReferenceDate
    /\ NoOutcome

SpecCount == InitCount /\ [][CallTrainingCount]_vars

RECURSIVE SumOfValues(_, _)
SumOfValues(d, i) == IF i = 0 THEN 0 ELSE SumOfValues(d, i - 1) + d[i].v

\* the completions of the dataset that have a non-empty name
NamedCompletions ==
    {i \in 1..Len(Visits(data, 1)) :
        LET c == Visits(data, 1)[i].completion
        IN  "name" \in DOMAIN c /\ c.name # ""}

----------------------------------------------------------------------------
(* get_completed_trainings on completions dated at the ends of fiscal      *)
(* years: 30 June and 1 July of three years, for two fiscal years.         *)

FiscalYears == {MainFiscalYear, MainFiscalYear + 1}

\* a training that line 155 does not request
OtherTraining == "Fire Extinguisher Use"

FiscalTimestamps ==
    UNION {{DateString(6, 30, y), ShortDateString(7, 1, y)}
           : y \in {MainFiscalYear - 1, MainFiscalYear, MainFiscalYear + 1}}

FiscalCompletions ==
    {Completion("X-Ray Safety", t, MissingText) : t \in FiscalTimestamps}
    \cup {Completion(OtherTraining, ShortDateString(7, 1, MainFiscalYear), MissingText)}

InitFiscal ==
    /\ \E lens \in Shapes :
         \E flat \in [1..Sum(lens, Len(lens)) -> FiscalCompletions] :
            data = Dataset(NameByPlace(lens), lens, flat)
    /\ trainings = MainTrainings
    /\ fiscal_year \in FiscalYears
    /\ reference_date = MainReferenceDate
    /\ NoOutcome

SpecFiscal == InitFiscal /\ [][CallCompletedTrainings]_vars

\* how often x occurs in the list
Occurrences(list, x) == Cardinality({i \in 1..Len(list) : list[i] = x})

\* the ways the model's datasets write a day
Written(m, d, y) == {DateString(m, d, y), ShortDateString(m, d, y)}

\* the completions of training t that person p has with a timestamp among
\* the strings `stamps`
Dated(p, t, stamps) ==
    {j \in 1..Len(data[p].completions) :
        LET c == data[p].completions[j]
        IN  /\ "name" \in DOMAIN c /\ c.name = t
            /\ "timestamp" \in DOMAIN c /\ c.timestamp \in stamps}

\* C2: for each requested training, a person's name is in the training's
\* list once for each of the person's completions of it dated 07/01 of the
\* year before the fiscal year or 06/30 of the fiscal year, and the person's
\* completions dated 06/30 of the year before or 07/01 of the fiscal year
\* add no occurrence (people's names are distinct in these datasets).
C2_FiscalYearEnds ==
    training_results # NotCalled =>
        /\ ~Raised(training_results)
        /\ \A i \in 1..Len(training_results.value) : \A p \in 1..Len(data) :
              LET t == training_results.value[i].k
                  n == Occurrences(training_results.value[i].v, data[p].name)
                  first == Dated(p, t, Written(7, 1, fiscal_year - 1))
                  last == Dated(p, t, Written(6, 30, fiscal_year))
                  before == Dated(p, t, Written(6, 30, fiscal_year - 1))
                  after == Dated(p, t, Written(7, 1, fiscal_year))
                  all == Dated(p, t, FiscalTimestamps)
              IN  /\ n >= Cardinality(first) + Cardinality(last)
                  /\ n <= Cardinality(all) - Cardinality(before) - Cardinality(after)

\* a person with a completion on the last day of the fiscal year and one
\* on the day after it, and another person with one on its first day
C2_Witness ==
    /\ training_results # NotCalled
    /\ \E p, q \in 1..Len(data) :
          /\ p # q
          /\ Dated(p, "X-Ray Safety", Written(6, 30, fiscal_year)) # {}
          /\ Dated(p, "X-Ray Safety", Written(7, 1, fiscal_year)) # {}
          /\ Dated(q, "X-Ray Safety", Written(7, 1, fiscal_year - 1)) # {}
          /\ Dated(q, "X-Ray Safety", Written(6, 30, fiscal_year - 1)) = {}

----------------------------------------------------------------------------
(* get_completed_trainings on completions inside and outside fiscal year   *)
(* 2024, of a requested training and of another, with keys missing.        *)

RosterRequests == {MainTrainings, <<"X-Ray Safety", "X-Ray Safety">>}

\* a day of fiscal year 2024
RosterInside == DateString(1, 15, MainFiscalYear)

\* a day after fiscal year 2024
RosterOutside == DateString(8, 20, MainFiscalYear)

RosterCompletions ==
    {Completion(n, t, MissingText) :
        n \in {"X-Ray Safety", "Laboratory Safety Training"},
        t \in {RosterInside, RosterOutside}}
    \cup {Completion(Missing, RosterInside, MissingText),
          Completion("X-Ray Safety", MissingText, MissingText),
          Completion("X-Ray Safety", <<>>, MissingText)}

InitRoster ==
    /\ \E lens \in Shapes :
         \E flat \in [1..Sum(lens, Len(lens)) -> RosterCompletions] :
            data = Dataset(NameByPlace(lens), lens, flat)
    /\ trainings \in RosterRequests
    /\ fiscal_year = MainFiscalYear
    /\ reference_date = MainReferenceDate
    /\ NoOutcome

SpecRoster == InitRoster /\ [][CallCompletedTrainings]_vars

\* the visits of completions of training t dated RosterInside, in order
RECURSIVE QualifyingNames(_, _, _)
QualifyingNames(visits, i, t) ==
    IF i > Len(visits) THEN <<>>
    ELSE LET c == visits[i].completion
             rest == QualifyingNames(visits, i + 1, t)
         IN  IF /\ "name" \in DOMAIN c /\ c.name = t
                /\ "timestamp" \in DOMAIN c /\ c.timestamp = RosterInside
             THEN <<visits[i].person.name>> \o rest
             ELSE rest

\* C7: the keys of the dictionary that get_completed_trainings builds are
\* the requested trainings, each once, whatever the dataset holds, and a
\* requested training that nobody completed in the fiscal year has the
\* empty list.
C7_KeysAreRequested ==
    training_results # NotCalled =>
        /\ ~Raised(training_results)
        /\ DictKeys(training_results.value) = {trainings[i] : i \in 1..Len(trainings)}
        /\ Len(training_results.value) = Cardinality(DictKeys(training_results.value))
        /\ \A i \in 1..Len(training_results.value) :
              QualifyingNames(Visits(data, 1), 1, training_results.value[i].k) = <<>>
                  => training_results.value[i].v = <<>>

\* a requested training with an empty list, while the dataset holds a
\* completion, inside the fiscal year, of a training that is not requested
C7_Witness ==
    /\ training_results # NotCalled
    /\ \E i \in 1..Len(training_results.value) : training_results.value[i].v = <<>>
    /\ "Laboratory Safety Training" \notin {trainings[i] : i \in 1..Len(trainings)}
    /\ QualifyingNames(Visits(data, 1), 1, "Laboratory Safety Training") # <<>>

\* C8: the list of each requested training holds the person's name once for
\* each completion of that training that has a timestamp inside the fiscal
\* year, in the order in which the people and their completions come in the
\* dataset, and nothing else.
C8_OneNamePerCompletion ==
    training_results # NotCalled =>
        /\ ~Raised(training_results)
        /\ \A i \in 1..Len(training_results.value) :
              training_results.value[i].v =
                  QualifyingNames(Visits(data, 1), 1, training_results.value[i].k)

\* a list that names a person twice and another person after
C8_Witness ==
    /\ training_results # NotCalled
    /\ ~Raised(training_results)
    /\ \E i \in 1..Len(training_results.value) :
          training_results.value[i].v = <<"Alice", "Alice", "Bob">>

----------------------------------------------------------------------------
(* get_expired_or_expiring_trainings on expiry dates at the ends of the    *)
(* 30 days after the reference date, for three reference dates.            *)

\* reference dates <<m, d, y>> with the day before, the 30th day after and
\* the 31st day after, from the calendar: the date of line 160, one whose
\* 30 days end in the next year, one whose 30 days hold 29 February
RefCases ==
    { [ref |-> <<10, 1, 2023>>, before |-> <<9, 30, 2023>>,
       plus30 |-> <<10, 31, 2023>>, plus31 |-> <<11, 1, 2023>>],
      [ref |-> <<12, 15, 2023>>, before |-> <<12, 14, 2023>>,
       plus30 |-> <<1, 14, 2024>>, plus31 |-> <<1, 15, 2024>>],
      [ref |-> <<2, 1, 2024>>, before |-> <<1, 31, 2024>>,
       plus30 |-> <<3, 2, 2024>>, plus31 |-> <<3, 3, 2024>>] }

Text(mdy) == DateString(mdy[1], mdy[2], mdy[3])

ShortText(mdy) == ShortDateString(mdy[1], mdy[2], mdy[3])

\* the day every completion of these datasets was made
ExpiryTimestamp == DateString(1, 15, 2023)

ExpiryCompletions(case) ==
    {Completion("X-Ray Safety", ExpiryTimestamp, e) :
        e \in {Text(case.before), Text(case.ref), Text(case.plus30),
               Text(case.plus31), MissingText}}
    \cup {Completion("Laboratory Safety Training", ExpiryTimestamp,
                     Text(case.plus30))}

InitExpiry ==
    /\ \E case \in RefCases :
         /\ reference_date = ShortText(case.ref)
         /\ \E lens \in Shapes :
              \E flat \in [1..Sum(lens, Len(lens)) -> ExpiryCompletions(case)] :
                 data = Dataset(NameByPlace(lens), lens, flat)
    /\ trainings = MainTrainings
    /\ fiscal_year = MainFiscalYear
    /\ NoOutcome

SpecExpiry == InitExpiry /\ [][CallExpiredOrExpiring]_vars

\* the case of the reference date
RefCase == CHOOSE case \in RefCases : reference_date = ShortText(case.ref)

\* what the report lists for person p (people's names are distinct in
\* these datasets)
TrainingsOf(p) ==
    IF \E i \in 1..Len(results.value) : results.value[i].name = data[p].name
    THEN results.value[CHOOSE i \in 1..Len(results.value) :
                           results.value[i].name = data[p].name].trainings
    ELSE <<>>

Listed(p, t, status) ==
    \E i \in 1..Len(TrainingsOf(p)) :
        TrainingsOf(p)[i] = [training |-> t, status |-> status]

Unlisted(p, t) ==
    \A i \in 1..Len(TrainingsOf(p)) : TrainingsOf(p)[i].training # t

\* the most recent completions of person p, per training, that have an
\* expiry date among the strings `texts`
Expiring(p, texts) ==
    {i \in 1..Len(most_recent_trainings[p].value) :
        LET details == most_recent_trainings[p].value[i].v
        IN  "expires" \in DOMAIN details /\ details.expires \in texts}

\* C3: a most recent completion that expires the day before the reference
\* date is listed "expired"; one that expires on the reference date, or 30
\* days after it, is listed "expires soon"; one that expires 31 days after
\* it is not listed.
C3_ExpiryBoundaries ==
    results # NotCalled =>
        /\ ~Raised(results)
        /\ \A p \in 1..Len(data) :
              LET recent == most_recent_trainings[p].value
              IN  /\ \A i \in Expiring(p, {Text(RefCase.before)}) :
                        Listed(p, recent[i].k, "expired")
                  /\ \A i \in Expiring(p, {Text(RefCase.ref), Text(RefCase.plus30)}) :
                        Listed(p, recent[i].k, "expires soon")
                  /\ \A i \in Expiring(p, {Text(RefCase.plus31)}) :
                        Unlisted(p, recent[i].k)

\* one report with a training expired the day before the reference date,
\* one expiring 30 days after it and one expiring 31 days after it
C3_Witness ==
    /\ results # NotCalled
    /\ ~Raised(results)
    /\ \E p \in 1..Len(data) : Expiring(p, {Text(RefCase.before)}) # {}
    /\ \E p \in 1..Len(data) : Expiring(p, {Text(RefCase.plus30)}) # {}
    /\ \E p \in 1..Len(data) : Expiring(p, {Text(RefCase.plus31)}) # {}

\* the names of the people from person p on who have a most recent
\* completion expiring before the 31st day after the reference date
RECURSIVE FlaggedPeople(_)
FlaggedPeople(p) ==
    IF p > Len(data) THEN <<>>
    ELSE IF Expiring(p, {Text(RefCase.before), Text(RefCase.ref),
                         Text(RefCase.plus30)}) # {}
         THEN <<data[p].name>> \o FlaggedPeople(p + 1)
         ELSE FlaggedPeople(p + 1)

\* C10: the report has one entry for each person who has a training that
\* is expired or expires soon, and none for anyone else; the entries come in
\* the order of the people in the dataset, and none has an empty list.
C10_FlaggedPeopleOnly ==
    results # NotCalled =>
        /\ ~Raised(results)
        /\ [i \in 1..Len(results.value) |-> results.value[i].name] = FlaggedPeople(1)
        /\ \A i \in 1..Len(results.value) : results.value[i].trainings # <<>>

\* a person whose trainings are not flagged, before one with two flagged
\* trainings
C10_Witness ==
    /\ results # NotCalled
    /\ ~Raised(results)
    /\ Len(data) = 2
    /\ CompletionsOf(data[1]) # <<>>
    /\ Len(results.value) = 1
    /\ results.value[1].name = data[2].name
    /\ Len(results.value[1].trainings) = 2

----------------------------------------------------------------------------
(* get_most_recent_completions, as get_expired_or_expiring_trainings calls *)
(* it, on people with several completions of a training: on three days,    *)
(* one of them written in two ways, with and without an expiry date.       *)

\* the timestamps with their days <<y, m, d>>; the latest day has the
\* least string
RecentStamps ==
    { [text |-> DateString(3, 5, 2023), day |-> <<2023, 3, 5>>],
      [text |-> DateString(4, 9, 2023), day |-> <<2023, 4, 9>>],
      [text |-> ShortDateString(4, 9, 2023), day |-> <<2023, 4, 9>>],
      [text |-> DateString(1, 20, 2024), day |-> <<2024, 1, 20>>] }

\* an expiry date before the reference date of line 160
RecentExpiry == DateString(4, 9, 2023)

RecentCompletions ==
    {Completion("X-Ray Safety", r.text, e) :
        r \in RecentStamps, e \in {MissingText, RecentExpiry}}
    \cup {Completion("Laboratory Safety Training", DateString(3, 5, 2023),
                     RecentExpiry)}

InitRecent ==
    /\ \E lens \in Shapes :
         \E flat \in [1..Sum(lens, Len(lens)) -> RecentCompletions] :
            data = Dataset(NameByPlace(lens), lens, flat)
    /\ trainings = MainTrainings
    /\ fiscal_year = MainFiscalYear
    /\ reference_date = MainReferenceDate
    /\ NoOutcome

SpecRecent == InitRecent /\ [][CallExpiredOrExpiring]_vars

\* the timestamps of the datasets on several completions of a training,
\* with their days <<y, m, d>>; the later day has the lesser string
LatestStamps ==
    { [text |-> DateString(11, 20, 2022), day |-> <<2022, 11, 20>>],
      [text |-> DateString(3, 5, 2023), day |-> <<2023, 3, 5>>] }

\* a day of fiscal year 2024
GoodTimestamp == DateString(1, 15, MainFiscalYear)

GoodStamps == {[text |-> GoodTimestamp, day |-> <<MainFiscalYear, 1, 15>>]}

\* the day <<y, m, d>> of a timestamp
StampDay(text) ==
    (CHOOSE r \in RecentStamps \cup LatestStamps \cup GoodStamps : r.text = text).day

\* day a is after day b
After(a, b) ==
    \/ a[1] > b[1]
    \/ a[1] = b[1] /\ a[2] > b[2]
    \/ a[1] = b[1] /\ a[2] = b[2] /\ a[3] > b[3]

\* the completions of the list that have a name and a timestamp: the ones
\* of training t
Of(completions, t) ==
    {j \in 1..Len(completions) :
        /\ "name" \in DOMAIN completions[j] /\ completions[j].name = t
        /\ "timestamp" \in DOMAIN completions[j]}

\* the trainings of the list
TrainingsIn(completions) ==
    {completions[j].name : j \in {i \in 1..Len(completions) :
        "name" \in DOMAIN completions[i] /\ "timestamp" \in DOMAIN completions[i]}}

\* the completions of training t made on its latest day
Latest(completions, t) ==
    {j \in Of(completions, t) :
        \A i \in Of(completions, t) :
            ~After(StampDay(completions[i].timestamp),
                   StampDay(completions[j].timestamp))}

\* the entry is the one lines 89-92 build for completion c
IsEntryOf(details, c) ==
    /\ details.timestamp =
          LET day == StampDay(c.timestamp) IN ToOrdinal(day[1], day[2], day[3])
    /\ ("expires" \in DOMAIN details) = ("expires" \in DOMAIN c)
    /\ "expires" \in DOMAIN c => details.expires = c.expires

\* a dictionary as Python compares dictionaries: without the order
Items(d) == {d[i] : i \in 1..Len(d)}

Permuted(completions, perm) == [j \in 1..Len(completions) |-> completions[perm[j]]]

\* the result of get_most_recent_completions for person p is that of every
\* reordering of the person's completions, and holds for each training
\* the entry of the completion made on the latest day
SameForEveryOrder(p) ==
    LET completions == CompletionsOf(data[p])
        recent == most_recent_trainings[p]
    IN  /\ ~Raised(recent)
        /\ \A perm \in Permutations(1..Len(completions)) :
              LET other == get_most_recent_completions(Permuted(completions, perm))
              IN  ~Raised(other) /\ Items(other.value) = Items(recent.value)
        /\ DictKeys(recent.value) = TrainingsIn(completions)
        /\ \A t \in TrainingsIn(completions) :
              \E j \in Latest(completions, t) :
                  IsEntryOf(DictGet(recent.value, t), completions[j])

\* C4, as amended: when a person's completions of the same training are
\* made on pairwise different days, get_most_recent_completions returns the
\* same mapping for every order of the list, with for each training the
\* entry of the completion made on the latest day.
C4_SameForEveryOrderOfDays ==
    \A p \in 1..Len(most_recent_trainings) :
        LET completions == CompletionsOf(data[p])
        IN  (\A t \in TrainingsIn(completions) : \A i, j \in Of(completions, t) :
                i # j => StampDay(completions[i].timestamp)
                             # StampDay(completions[j].timestamp))
            => SameForEveryOrder(p)

\* C4: when a person's completions of the same training have pairwise
\* different timestamps, get_most_recent_completions returns the same
\* mapping for every order of the list, with for each training the entry of
\* the completion with the greatest timestamp.
C4_SameForEveryOrderOfTimestamps ==
    \A p \in 1..Len(most_recent_trainings) :
        LET completions == CompletionsOf(data[p])
        IN  (\A t \in TrainingsIn(completions) : \A i, j \in Of(completions, t) :
                i # j => completions[i].timestamp # completions[j].timestamp)
            => SameForEveryOrder(p)

\* a person with three completions of a training on three days, the latest
\* neither first nor last in the list, and with different expiry dates
C4_Witness ==
    /\ results # NotCalled
    /\ \E p \in 1..Len(most_recent_trainings) :
          LET completions == CompletionsOf(data[p])
          IN  /\ Len(completions) = 3
              /\ Cardinality(Of(completions, "X-Ray Safety")) = 3
              /\ Cardinality({StampDay(completions[j].timestamp) : j \in 1..3}) = 3
              /\ Latest(completions, "X-Ray Safety") = {2}
              /\ "expires" \in DOMAIN completions[2]
              /\ "expires" \notin DOMAIN completions[1]

\* C5: when several completions of a training are made on its latest day,
\* the entry of the training is the one of the first of them in the list.
C5_FirstSeenWins ==
    \A p \in 1..Len(most_recent_trainings) :
        LET completions == CompletionsOf(data[p])
            recent == most_recent_trainings[p]
        IN  /\ ~Raised(recent)
            /\ \A t \in TrainingsIn(completions) :
                  LET first == CHOOSE j \in Latest(completions, t) :
                                   \A i \in Latest(completions, t) : j <= i
                  IN  IsEntryOf(DictGet(recent.value, t), completions[first])

\* two completions on the latest day, after an earlier one: the first of
\* the two has no expiry date, the second has one
C5_Witness ==
    /\ results # NotCalled
    /\ \E p \in 1..Len(most_recent_trainings) :
          LET completions == CompletionsOf(data[p])
          IN  /\ Len(completions) = 3
              /\ Latest(completions, "X-Ray Safety") = {2, 3}
              /\ completions[2].timestamp # completions[3].timestamp
              /\ "expires" \notin DOMAIN completions[2]
              /\ "expires" \in DOMAIN completions[3]
              /\ "expires" \notin DOMAIN DictGet(most_recent_trainings[p].value,
                                                  "X-Ray Safety")

----------------------------------------------------------------------------
(* get_expired_or_expiring_trainings on people with an earlier and a later *)
(* completion of a training, with expiry dates before the reference date   *)
(* of line 160, within 30 days of it, after that, and with none.           *)

LatestExpired == DateString(4, 9, 2023)

LatestSoon == DateString(10, 15, 2023)

LatestValid == DateString(3, 5, 2025)

LatestCompletions ==
    {Completion("X-Ray Safety", r.text, e) :
        r \in LatestStamps,
        e \in {MissingText, LatestExpired, LatestSoon, LatestValid}}

InitLatest ==
    /\ \E lens \in Shapes :
         \E flat \in [1..Sum(lens, Len(lens)) -> LatestCompletions] :
            data = Dataset(NameByPlace(lens), lens, flat)
    /\ trainings = MainTrainings
    /\ fiscal_year = MainFiscalYear
    /\ reference_date = MainReferenceDate
    /\ NoOutcome

SpecLatest == InitLatest /\ [][CallExpiredOrExpiring]_vars

\* the first of the completions of training t made on its latest day
Winner(completions, t) ==
    CHOOSE j \in Latest(completions, t) : \A i \in Latest(completions, t) : j <= i

\* C6: what the report says of a training of a person follows from the
\* expiry date of the person's latest completion of it alone: "expired" or
\* "expires soon" by that date, and nothing when that completion has no
\* expiry date or one more than 30 days after the reference date, whatever
\* the expiry dates of the person's earlier completions.
C6_LatestCompletionDecides ==
    results # NotCalled =>
        /\ ~Raised(results)
        /\ \A p \in 1..Len(data) : \A t \in TrainingsIn(CompletionsOf(data[p])) :
              LET latest == CompletionsOf(data[p])[Winner(CompletionsOf(data[p]), t)]
                  listed == {i \in 1..Len(TrainingsOf(p)) : TrainingsOf(p)[i].training = t}
              IN  /\ Cardinality(listed) <= 1
                  /\ IF "expires" \notin DOMAIN latest THEN listed = {}
                     ELSE IF latest.expires = LatestExpired
                          THEN Listed(p, t, "expired")
                     ELSE IF latest.expires = LatestSoon
                          THEN Listed(p, t, "expires soon")
                     ELSE listed = {}

\* a person whose latest completion has no expiry date and whose earlier
\* one expired, listed before it, and who is not in the report; and a person
\* whose latest completion expires soon and whose earlier one expired
C6_Witness ==
    /\ results # NotCalled
    /\ ~Raised(results)
    /\ Len(data) = 2
    /\ Len(CompletionsOf(data[1])) = 2
    /\ Winner(CompletionsOf(data[1]), "X-Ray Safety") = 2
    /\ "expires" \notin DOMAIN data[1].completions[2]
    /\ "expires" \in DOMAIN data[1].completions[1]
    /\ data[1].completions[1].expires = LatestExpired
    /\ TrainingsOf(1) = <<>>
    /\ TrainingsOf(2) # <<>>

----------------------------------------------------------------------------
(* The three reports on date strings that cannot be parsed: in the         *)
(* timestamp of a requested training, of another training and of a         *)
(* completion without a name, and in the expiry date.                      *)

\* 30 February
BadDay == DateString(2, 30, 2023)

\* month 13
BadMonth == DateString(13, 1, 2023)

\* "2023-01-15"
BadFormat == Year4(2023) \o <<"-">> \o Padded(1) \o <<"-">> \o Padded(15)

\* "1/15/23"
BadYear == Unpadded(1) \o <<"/">> \o Padded(15) \o <<"/">> \o Padded(23)

BadStrings == {BadDay, BadMonth, BadFormat, BadYear}

ReportCompletions ==
    { Completion("X-Ray Safety", GoodTimestamp, MissingText),
      Completion("X-Ray Safety", BadDay, MissingText),
      Completion(OtherTraining, BadMonth, MissingText),
      Completion(Missing, BadFormat, MissingText),
      Completion("X-Ray Safety", GoodTimestamp, BadYear),
      Completion("X-Ray Safety", GoodTimestamp, <<>>),
      Completion("X-Ray Safety", <<>>, BadYear) }

Init ==
    /\ \E lens \in Shapes :
         \E flat \in [1..Sum(lens, Len(lens)) -> ReportCompletions] :
            data = Dataset(NameByPlace(lens), lens, flat)
    /\ trainings = MainTrainings
    /\ fiscal_year = MainFiscalYear
    /\ reference_date = MainReferenceDate
    /\ NoOutcome

\* lines 152-161: the three reports are independent of each other, and
\* each is called once
Next == CallTrainingCount \/ CallCompletedTrainings \/ CallExpiredOrExpiring

Spec == Init /\ [][Next]_vars

\* the completion has, under the key, a string of BadStrings
IsBad(completion, key) == key \in DOMAIN completion /\ completion[key] \in BadStrings

\* C9: with a completion in the dataset whose timestamp or expiry date is
\* there and cannot be parsed, each of the two reports ends in an error and
\* produces no result.
C9_AnyBadDateIsFatal ==
    LET bad == \E i \in 1..Len(Visits(data, 1)) :
                   \/ IsBad(Visits(data, 1)[i].completion, "timestamp")
                   \/ IsBad(Visits(data, 1)[i].completion, "expires")
    IN  /\ (training_results # NotCalled /\ bad) => Raised(training_results)
        /\ (results # NotCalled /\ bad) => Raised(results)

\* a completion of a requested training whose timestamp is not empty and
\* cannot be parsed
BadRequested ==
    \E i \in 1..Len(Visits(data, 1)) :
        LET c == Visits(data, 1)[i].completion
        IN  /\ "name" \in DOMAIN c /\ \E k \in 1..Len(trainings) : trainings[k] = c.name
            /\ IsBad(c, "timestamp")

\* a completion with a non-empty name whose timestamp is not empty and
\* cannot be parsed
BadNamed ==
    \E i \in 1..Len(Visits(data, 1)) :
        LET c == Visits(data, 1)[i].completion
        IN  "name" \in DOMAIN c /\ c.name # "" /\ IsBad(c, "timestamp")

\* the first of the latest completions of person p with a name and a
\* non-empty timestamp, for training t
Retained(p, t) ==
    LET completions ==
            SelectSeq(CompletionsOf(data[p]),
                      LAMBDA c : "timestamp" \in DOMAIN c /\ c.timestamp # <<>>)
    IN  completions[Winner(completions, t)]

\* a person's most recent completion of a training has an expiry date that
\* is not empty and cannot be parsed
BadRetained ==
    \E p \in 1..Len(data) :
        \E t \in {c.name : c \in {CompletionsOf(data[p])[j] :
                      j \in {i \in 1..Len(CompletionsOf(data[p])) :
                          LET c == CompletionsOf(data[p])[i]
                          IN  /\ "name" \in DOMAIN c /\ c.name # ""
                              /\ "timestamp" \in DOMAIN c /\ c.timestamp # <<>>}}} :
            IsBad(Retained(p, t), "expires")

\* C9, as amended: a date string that is not empty and cannot be parsed is
\* fatal to the report that parses it.  get_completed_trainings ends in a
\* ValueError, with no result, exactly when a completion of a requested
\* training has such a timestamp.  get_expired_or_expiring_trainings ends in
\* a ValueError, with no result, exactly when a completion with a name has
\* such a timestamp or a person's most recent completion of a training has
\* such an expiry date.
C9_ParsedBadDateIsFatal ==
    /\ training_results # NotCalled =>
          /\ BadRequested => training_results = ValueError
          /\ ~BadRequested => ~Raised(training_results)
    /\ results # NotCalled =>
          IF BadNamed \/ BadRetained THEN results = ValueError ELSE ~Raised(results)

\* both reports were called on a dataset with an unparseable timestamp in a
\* training that is not requested: the first has its result, the second
\* ended in the error
C9_Witness ==
    /\ training_results # NotCalled
    /\ results # NotCalled
    /\ ~Raised(training_results)
    /\ results = ValueError
    /\ ~BadRequested
    /\ BadNamed

====
